---- MODULE Spec2Model ----
(***************************************************************************)
(* Conversions of wkt-types/src/pbtime.rs between the protobuf Timestamp   *)
(* and Duration messages and chrono's DateTime<Utc> / Duration, the        *)
(* RFC 3339 text form and the PostgreSQL binary TIMESTAMP value.           *)
(*                                                                         *)
(* The conversions are pure functions.  The state machine keeps the chain  *)
(* of values produced so far (hist) and the conversions applied (trail);   *)
(* each action applies one conversion of the source to the last value.     *)
(*                                                                         *)
(* i64 quantities exceed the integers TLC computes with, so they are held  *)
(* as sign and magnitude, the magnitude a little-endian sequence of        *)
(* base-1000 limbs.  i32 quantities are TLC integers.                      *)
(***************************************************************************)
EXTENDS Integers, Sequences, FiniteSets, TLC

VARIABLES hist, trail, overflowChecks

vars == <<hist, trail, overflowChecks>>

----------------------------------------------------------------------------
(* Wide integers.                                                          *)

RECURSIVE Trim(_)
Trim(m) ==
    IF m = <<>> THEN <<>>
    ELSE IF m[Len(m)] = 0 THEN Trim(SubSeq(m, 1, Len(m) - 1))
    ELSE m

RECURSIVE Reverse(_)
Reverse(s) == IF s = <<>> THEN <<>> ELSE Reverse(Tail(s)) \o <<Head(s)>>

Limb(m, i) == IF i <= Len(m) THEN m[i] ELSE 0

RECURSIVE MagAddFrom(_, _, _, _)
MagAddFrom(a, b, i, carry) ==
    IF i > Len(a) /\ i > Len(b)
    THEN (IF carry = 0 THEN <<>> ELSE <<carry>>)
    ELSE LET s == Limb(a, i) + Limb(b, i) + carry
         IN  <<s % 1000>> \o MagAddFrom(a, b, i + 1, s \div 1000)

MagAdd(a, b) == MagAddFrom(a, b, 1, 0)

RECURSIVE MagSubFrom(_, _, _, _)
MagSubFrom(a, b, i, borrow) ==
    IF i > Len(a) THEN <<>>
    ELSE LET d == Limb(a, i) - Limb(b, i) - borrow
         IN  <<d % 1000>> \o MagSubFrom(a, b, i + 1, IF d < 0 THEN 1 ELSE 0)

\* a - b for magnitudes with a >= b
MagSub(a, b) == Trim(MagSubFrom(a, b, 1, 0))

RECURSIVE MagCmpAt(_, _, _)
MagCmpAt(a, b, i) ==
    IF i = 0 THEN 0
    ELSE IF a[i] < b[i] THEN -1
    ELSE IF a[i] > b[i] THEN 1
    ELSE MagCmpAt(a, b, i - 1)

MagCmp(a, b) ==
    IF Len(a) < Len(b) THEN -1
    ELSE IF Len(a) > Len(b) THEN 1
    ELSE MagCmpAt(a, b, Len(a))

\* a * k for a small factor k (k <= 2000000 keeps every step a TLC integer)
RECURSIVE MagMulFrom(_, _, _, _)
MagMulFrom(a, k, i, carry) ==
    IF i > Len(a)
    THEN (IF carry = 0 THEN <<>>
          ELSE <<carry % 1000>> \o MagMulFrom(a, k, i, carry \div 1000))
    ELSE LET p == a[i] * k + carry
         IN  <<p % 1000>> \o MagMulFrom(a, k, i + 1, p \div 1000)

MagMul(a, k) ==
    IF k = 1000000000 THEN Trim(<<0, 0, 0>> \o a)
    ELSE Trim(MagMulFrom(a, k, 1, 0))

\* <<quotient, remainder>> of a by a small divisor k, from the top limb down
RECURSIVE MagDivFrom(_, _, _, _)
MagDivFrom(a, k, i, rem) ==
    IF i = 0 THEN <<<<>>, rem>>
    ELSE LET cur  == rem * 1000 + a[i]
             rest == MagDivFrom(a, k, i - 1, cur % k)
         IN  <<rest[1] \o <<cur \div k>>, rest[2]>>

\* (the divisor 10^9 is three limbs: the quotient is the limbs above them)
MagDivMod(a, k) ==
    IF k = 1000000000
    THEN <<SubSeq(a, 4, Len(a)), Limb(a, 1) + 1000 * Limb(a, 2) + 1000000 * Limb(a, 3)>>
    ELSE LET r == MagDivFrom(a, k, Len(a), 0) IN <<Trim(r[1]), r[2]>>

RECURSIVE MagDouble(_, _)
MagDouble(m, k) == IF k = 0 THEN m ELSE MagDouble(MagAdd(m, m), k - 1)

\* m mod p, for m < p * 2^(k+1), by subtracting p * 2^k, ..., p * 2, p
RECURSIVE MagReduce(_, _, _)
MagReduce(m, p, k) ==
    IF k < 0 THEN m
    ELSE LET pk == MagDouble(p, k)
         IN  IF MagCmp(m, pk) >= 0 THEN MagReduce(MagSub(m, pk), p, k - 1)
             ELSE MagReduce(m, p, k - 1)

MkBig(neg, mag) ==
    LET t == Trim(mag) IN [neg |-> neg /\ t # <<>>, mag |-> t]

\* the number written in groups of three decimal digits, most significant first
Big(groups) == MkBig(FALSE, Reverse(groups))

BNeg(x) == MkBig(~x.neg, x.mag)

Zero == Big(<<>>)

One == Big(<<1>>)

BAdd(x, y) ==
    IF x.neg = y.neg THEN MkBig(x.neg, MagAdd(x.mag, y.mag))
    ELSE IF MagCmp(x.mag, y.mag) >= 0 THEN MkBig(x.neg, MagSub(x.mag, y.mag))
    ELSE MkBig(y.neg, MagSub(y.mag, x.mag))

BSub(x, y) == BAdd(x, BNeg(y))

BCmp(x, y) ==
    IF x.neg /\ ~y.neg THEN -1
    ELSE IF ~x.neg /\ y.neg THEN 1
    ELSE IF x.neg THEN MagCmp(y.mag, x.mag)
    ELSE MagCmp(x.mag, y.mag)

BLe(x, y) == BCmp(x, y) <= 0

BLt(x, y) == BCmp(x, y) < 0

BMul(x, k) ==
    IF k >= 0 THEN MkBig(x.neg, MagMul(x.mag, k))
    ELSE MkBig(~x.neg, MagMul(x.mag, -k))

\* Rust's `/` and `%` on integers: the quotient rounds toward zero and the
\* remainder takes the sign of the dividend
BTruncDiv(x, k) == MkBig(x.neg, MagDivMod(x.mag, k)[1])

BTruncRem(x, k) ==
    LET r == MagDivMod(x.mag, k)[2] IN IF x.neg THEN -r ELSE r

\* div_euclid and rem_euclid by a positive divisor
BFloorDiv(x, k) ==
    LET qr == MagDivMod(x.mag, k)
    IN  IF x.neg /\ qr[2] # 0 THEN MkBig(TRUE, MagAdd(qr[1], <<1>>))
        ELSE MkBig(x.neg, qr[1])

BFloorMod(x, k) ==
    LET r == MagDivMod(x.mag, k)[2]
    IN  IF x.neg /\ r # 0 THEN k - r ELSE r

RECURSIVE MagOfNat(_)
MagOfNat(n) == IF n = 0 THEN <<>> ELSE <<n % 1000>> \o MagOfNat(n \div 1000)

FromInt(i) ==
    IF i >= 0 THEN MkBig(FALSE, MagOfNat(i))
    ELSE MkBig(TRUE, MagAdd(MagOfNat(-(i + 1)), <<1>>))

RECURSIVE IntOfMag(_, _, _)
IntOfMag(m, i, sign) ==
    IF i > Len(m) THEN 0 ELSE sign * m[i] + 1000 * IntOfMag(m, i + 1, sign)

\* the TLC integer of a wide integer known to fit 32 bits
ToInt(x) == IntOfMag(x.mag, 1, IF x.neg THEN -1 ELSE 1)

Two64 == Big(<<18, 446, 744, 73, 709, 551, 616>>)

I64_MAX == Big(<<9, 223, 372, 36, 854, 775, 807>>)

I64_MIN == BNeg(Big(<<9, 223, 372, 36, 854, 775, 808>>))

FitsI64(x) == BLe(I64_MIN, x) /\ BLe(x, I64_MAX)

\* two's complement wrapping of a result to 64 bits (|x| < 2^64 * 2^24)
WrapI64(x) ==
    LET low == MagReduce(x.mag, Two64.mag, 23)
        m   == IF x.neg /\ low # <<>> THEN MagSub(Two64.mag, low) ELSE low
        u   == MkBig(FALSE, m)
    IN  IF BLe(u, I64_MAX) THEN u ELSE BSub(u, Two64)

\* Rust's truncating `/` and `%` on an i32 held as a TLC integer
TruncDiv(a, b) ==
    IF a < 0 /\ a % b # 0 THEN (a \div b) + 1 ELSE a \div b

TruncRem(a, b) ==
    IF a < 0 /\ a % b # 0 THEN (a % b) - b ELSE a % b

----------------------------------------------------------------------------
(* Values.                                                                 *)

\* google.protobuf.Timestamp { seconds: i64, nanos: i32 }
Timestamp(seconds, nanos) ==
    [type |-> "Timestamp", seconds |-> seconds, nanos |-> nanos]

\* google.protobuf.Duration { seconds: i64, nanos: i32 }
Duration(seconds, nanos) ==
    [type |-> "Duration", seconds |-> seconds, nanos |-> nanos]

\* the binary value of a PostgreSQL TIMESTAMP column: diesel's PgTimestamp(i64)
\* when the payload is eight bytes, and a payload diesel cannot read otherwise
PgValue(offset) == [type |-> "PgValue", wellFormed |-> TRUE, offset |-> offset]

MalformedPgValue == [type |-> "PgValue", wellFormed |-> FALSE, offset |-> Zero]

Err(message) == [type |-> "Err", message |-> message]

Panic(message) == [type |-> "Panic", message |-> message]

\* an i64 result that left the i64 range: rustc's overflow checks abort the
\* call, and without them the result wraps
Wrapped(x) == IF FitsI64(x) THEN x ELSE WrapI64(x)

----------------------------------------------------------------------------
(* SQL codec.                                                              *)

from_sql(bytes) ==
    IF ~bytes.wellFormed THEN Err("invalid PgTimestamp payload")
    ELSE
    LET sum    == BAdd(bytes.offset, Big(<<946, 728, 000, 000, 000>>))
        offset == Wrapped(sum)
    IN  IF ~FitsI64(sum) /\ overflowChecks
        THEN Panic("attempt to add with overflow")
        ELSE IF /\ BLe(BNeg(Big(<<62, 135, 596, 800, 000, 000>>)), offset)
                /\ BLe(offset, Big(<<253, 402, 300, 799, 999, 999>>))
        THEN Timestamp(BTruncDiv(offset, 1000000),
                       BTruncRem(offset, 1000000) * 1000)
        ELSE Err("Tried to deserialize a timestamp that is too large for protobuf")

\* to_sql rebasing to 2000-01-01T00:00:00Z while from_sql keeps its own origin
to_sql_midnight_origin(self) ==
    LET prod == BMul(self.seconds, 1000000)
        sum  == BAdd(Wrapped(prod), FromInt(TruncDiv(self.nanos, 1000)))
        diff == BSub(Wrapped(sum), Big(<<946, 684, 800, 000, 000>>))
    IN  IF overflowChecks /\ (~FitsI64(prod) \/ ~FitsI64(sum) \/ ~FitsI64(diff))
        THEN Panic("attempt to compute with overflow")
        ELSE PgValue(Wrapped(diff))

to_sql(self) ==
    LET prod == BMul(self.seconds, 1000000)
        sum  == BAdd(Wrapped(prod), FromInt(TruncDiv(self.nanos, 1000)))
        diff == BSub(Wrapped(sum), Big(<<946, 728, 000, 000, 000>>))
    IN  IF overflowChecks /\ ~FitsI64(prod)
        THEN Panic("attempt to multiply with overflow")
        ELSE IF overflowChecks /\ ~FitsI64(sum)
        THEN Panic("attempt to add with overflow")
        ELSE IF overflowChecks /\ ~FitsI64(diff)
        THEN Panic("attempt to subtract with overflow")
        ELSE PgValue(Wrapped(diff))

\* FromSql<Timestamptz, Pg> and ToSql<Timestamptz, Pg> hand over to the
\* TIMESTAMP implementations
from_sql_tz(bytes) == from_sql(bytes)

to_sql_tz(self) == to_sql(self)

----------------------------------------------------------------------------
(* Normalization core.                                                     *)

\* normalize without the borrow of a negative remainder
normalize_no_borrow(self) ==
    Timestamp(Wrapped(BAdd(self.seconds,
                           FromInt(TruncDiv(self.nanos, 1000000000)))),
              TruncRem(self.nanos, 1000000000))

\* Timestamp::normalize: carry whole seconds out of nanos, then borrow one
\* second when nanos is negative; seconds is computed modulo 2^64
normalize(self) ==
    LET carried == Wrapped(BAdd(self.seconds,
                                FromInt(TruncDiv(self.nanos, 1000000000))))
        rest    == TruncRem(self.nanos, 1000000000)
    IN  IF rest < 0
        THEN Timestamp(Wrapped(BSub(carried, One)), rest + 1000000000)
        ELSE Timestamp(carried, rest)

----------------------------------------------------------------------------
(* Calendar bridge.                                                        *)

\* chrono's NaiveDateTime / DateTime<Utc>: the day counted from 0001-01-01
\* (day 1), the second of the day, and the nanosecond of the second, which
\* is 10^9 or more within a leap second
DateTime(days, secs, frac) ==
    [type |-> "DateTime", days |-> days, secs |-> secs, frac |-> frac]

\* chrono::Duration: floor seconds and the nanoseconds above them
ChronoDuration(secs, nanos) ==
    [type |-> "ChronoDuration", secs |-> secs, nanos |-> nanos]

\* `nanos as u32`: the value modulo 2^32
AsU32(n) ==
    IF n >= 0 THEN FromInt(n) ELSE BAdd(FromInt(n), Big(<<4, 294, 967, 296>>))

\* NaiveDate::MIN and NaiveDate::MAX (-262144-01-01 and +262143-12-31) as
\* days from 0001-01-01
MIN_DATE_DAYS == -95746495

MAX_DATE_DAYS == 95745764

\* Option::None
None == [type |-> "None"]

\* NaiveDateTime::from_timestamp_opt
from_timestamp_opt(secs, nsecs) ==
    LET days == BAdd(BFloorDiv(secs, 86400), FromInt(719163))
        sod  == BFloorMod(secs, 86400)
    IN  IF /\ BLe(FromInt(MIN_DATE_DAYS), days)
           /\ BLe(days, FromInt(MAX_DATE_DAYS))
           /\ BLt(nsecs, Big(<<2, 000, 000, 000>>))
        THEN DateTime(ToInt(days), sod, ToInt(nsecs))
        ELSE None

\* NaiveDateTime::timestamp and DateTime<Utc>::timestamp
timestamp(dt) ==
    BAdd(BMul(FromInt(dt.days - 719163), 86400), FromInt(dt.secs))

timestamp_subsec_nanos(dt) == dt.frac

\* From<NaiveDateTime> for Timestamp
from_naive_datetime(dt) == Timestamp(timestamp(dt), timestamp_subsec_nanos(dt))

\* From<DateTime<Utc>> for Timestamp
from_datetime(dt) == Timestamp(timestamp(dt), timestamp_subsec_nanos(dt))

\* the conversion without its call of normalize
from_timestamp_unnormalized(val) ==
    LET dt == from_timestamp_opt(val.seconds, AsU32(val.nanos))
    IN  IF dt = None THEN Panic("invalid or out-of-range datetime") ELSE dt

\* From<Timestamp> for DateTime<Utc>
from_timestamp(val) ==
    LET value == normalize(val)
        dt    == from_timestamp_opt(value.seconds, AsU32(value.nanos))
    IN  IF dt = None THEN Panic("invalid or out-of-range datetime") ELSE dt

\* chrono::Duration::MAX is i64::MAX milliseconds, 9223372036854775.807 s,
\* and chrono::Duration::MIN is i64::MIN milliseconds, which chrono holds as
\* -9223372036854776 s + 192000000 ns
ChronoMaxSecs == Big(<<9, 223, 372, 36, 854, 775>>)

\* Duration::seconds: None stands for its panic when the whole seconds lie
\* outside MIN..MAX
chrono_seconds(seconds) ==
    IF \/ BLt(seconds, BNeg(ChronoMaxSecs))
       \/ BLt(ChronoMaxSecs, seconds)
    THEN None
    ELSE ChronoDuration(seconds, 0)

chrono_nanoseconds(nanos) ==
    ChronoDuration(FromInt(nanos \div 1000000000), nanos % 1000000000)

chrono_add(a, b) ==
    LET nanos == a.nanos + b.nanos
    IN  IF nanos >= 1000000000
        THEN ChronoDuration(BAdd(BAdd(a.secs, b.secs), One), nanos - 1000000000)
        ELSE ChronoDuration(BAdd(a.secs, b.secs), nanos)

num_seconds(d) ==
    IF d.secs.neg /\ d.nanos > 0 THEN BAdd(d.secs, One) ELSE d.secs

\* Duration::num_nanoseconds
num_nanoseconds(d) ==
    LET secs_part  == BMul(num_seconds(d), 1000000000)
        nanos_part == IF d.secs.neg /\ d.nanos > 0
                      THEN d.nanos - 1000000000 ELSE d.nanos
        total      == BAdd(secs_part, FromInt(nanos_part))
    IN  IF FitsI64(secs_part) /\ FitsI64(total) THEN total ELSE None

\* From<Duration> for chrono::Duration
from_duration(val) ==
    LET s == chrono_seconds(val.seconds)
    IN  IF s = None THEN Panic("Duration::seconds out of bounds")
        ELSE chrono_add(s, chrono_nanoseconds(val.nanos))

\* From<chrono::Duration> for Duration
from_chrono_duration(val) ==
    LET n == num_nanoseconds(val)
    IN  IF n = None
        THEN Panic("called Option::unwrap() on a None value")
        ELSE Duration(num_seconds(val), BTruncRem(n, 1000000000))

----------------------------------------------------------------------------
(* Text codec.                                                             *)

\* a string is the sequence of its characters
Str(chars) == [type |-> "Str", chars |-> chars]

Digits == <<"0", "1", "2", "3", "4", "5", "6", "7", "8", "9">>

IsDigit(c) == \E d \in 1..10 : Digits[d] = c

DigitVal(c) == (CHOOSE d \in 1..10 : Digits[d] = c) - 1

\* the proleptic Gregorian date of a day counted from 0001-01-01 (day 1)
CivilFromDays(days) ==
    LET z   == days - 719163 + 719468
        era == z \div 146097
        doe == z - era * 146097
        yoe == (doe - doe \div 1460 + doe \div 36524 - doe \div 146096) \div 365
        doy == doe - (365 * yoe + yoe \div 4 - yoe \div 100)
        mp  == (5 * doy + 2) \div 153
        m   == IF mp < 10 THEN mp + 3 ELSE mp - 9
    IN  [year  |-> yoe + era * 400 + (IF m <= 2 THEN 1 ELSE 0),
         month |-> m,
         day   |-> doy - (153 * mp + 2) \div 5 + 1]

DaysFromCivil(year, month, day) ==
    LET y   == IF month <= 2 THEN year - 1 ELSE year
        era == y \div 400
        yoe == y - era * 400
        mp  == IF month > 2 THEN month - 3 ELSE month + 9
        doy == (153 * mp + 2) \div 5 + day - 1
        doe == yoe * 365 + yoe \div 4 - yoe \div 100 + doy
    IN  era * 146097 + doe - 719468 + 719163

IsLeapYear(y) == y % 4 = 0 /\ (y % 100 # 0 \/ y % 400 = 0)

DaysInMonth(y, m) ==
    IF m = 2 THEN (IF IsLeapYear(y) THEN 29 ELSE 28)
    ELSE IF m \in {4, 6, 9, 11} THEN 30 ELSE 31

\* the decimal digits of n >= 0, zero-padded to at least `width` characters
RECURSIVE Padded(_, _)
Padded(n, width) ==
    IF n < 10 /\ width <= 1 THEN <<Digits[n + 1]>>
    ELSE Padded(n \div 10, width - 1) \o <<Digits[(n % 10) + 1]>>

\* Debug for NaiveDate: {:04}-{:02}-{:02}, the year signed outside 0..=9999
FormatDate(days) ==
    LET d == CivilFromDays(days)
        y == IF 0 <= d.year /\ d.year <= 9999 THEN Padded(d.year, 4)
             ELSE IF d.year < 0 THEN <<"-">> \o Padded(-d.year, 4)
             ELSE <<"+">> \o Padded(d.year, 4)
    IN  y \o <<"-">> \o Padded(d.month, 2) \o <<"-">> \o Padded(d.day, 2)

\* Debug for NaiveTime: hh:mm:ss and the fraction in 3, 6 or 9 digits
FormatTime(secs, frac) ==
    LET leap == frac >= 1000000000
        sec  == (secs % 60) + (IF leap THEN 1 ELSE 0)
        nano == IF leap THEN frac - 1000000000 ELSE frac
        hms  == Padded(secs \div 3600, 2) \o <<":">>
                \o Padded((secs \div 60) % 60, 2) \o <<":">> \o Padded(sec, 2)
    IN  IF nano = 0 THEN hms
        ELSE IF nano % 1000000 = 0
        THEN hms \o <<".">> \o Padded(nano \div 1000000, 3)
        ELSE IF nano % 1000 = 0
        THEN hms \o <<".">> \o Padded(nano \div 1000, 6)
        ELSE hms \o <<".">> \o Padded(nano, 9)

\* format!("{dt:?}") of a DateTime<Utc>
FormatDebug(dt) ==
    FormatDate(dt.days) \o <<"T">> \o FormatTime(dt.secs, dt.frac) \o <<"Z">>

\* serialize writing the Display form, format!("{dt}"), of the DateTime<Utc>
serialize_display(self) ==
    LET dt == from_timestamp(normalize(Timestamp(self.seconds, self.nanos)))
    IN  IF dt.type = "Panic" THEN dt
        ELSE Str(FormatDate(dt.days) \o <<" ">> \o FormatTime(dt.secs, dt.frac)
                 \o <<" ", "U", "T", "C">>)

\* Serialize for Timestamp
serialize(self) ==
    LET ts == normalize(Timestamp(self.seconds, self.nanos))
        dt == from_timestamp(ts)
    IN  IF dt.type = "Panic" THEN dt ELSE Str(FormatDebug(dt))

\* the character at position i, "" past the end
At(chars, i) == IF i <= Len(chars) THEN chars[i] ELSE ""

RECURSIVE SkipSpace(_, _)
SkipSpace(chars, i) ==
    IF At(chars, i) = " " THEN SkipSpace(chars, i + 1) ELSE i

\* how many digits stand at position i, counted up to max
RECURSIVE DigitRun(_, _, _)
DigitRun(chars, i, max) ==
    IF max > 0 /\ IsDigit(At(chars, i))
    THEN 1 + DigitRun(chars, i + 1, max - 1) ELSE 0

RECURSIVE NumVal(_, _, _)
NumVal(chars, i, n) ==
    IF n = 0 THEN 0
    ELSE NumVal(chars, i, n - 1) * 10 + DigitVal(chars[i + n - 1])

RECURSIVE Pow10(_)
Pow10(n) == IF n = 0 THEN 1 ELSE 10 * Pow10(n - 1)

\* scan::number(s, 1, max): one to max digits
ScanNumber(chars, i, max) ==
    LET n == DigitRun(chars, i, max)
    IN  [ok |-> n >= 1, val |-> NumVal(chars, i, n), next |-> i + n]

\* a numeric item: leading white space, then the number
ScanField(chars, i) == ScanNumber(chars, SkipSpace(chars, i), 2)

\* the year: four digits at most without a sign, any number with one (a year
\* of ten digits or more is out of range in chrono and is refused here)
ScanYear(chars, i) ==
    LET j == SkipSpace(chars, i)
    IN  IF At(chars, j) = "-"
        THEN LET r == ScanNumber(chars, j + 1, 10)
             IN  [ok |-> r.ok /\ r.next - (j + 1) <= 9,
                  val |-> IF r.next - (j + 1) <= 9 THEN -r.val ELSE 0,
                  next |-> r.next]
        ELSE IF At(chars, j) = "+"
        THEN LET r == ScanNumber(chars, j + 1, 10)
             IN  [ok |-> r.ok /\ r.next - (j + 1) <= 9,
                  val |-> IF r.next - (j + 1) <= 9 THEN r.val ELSE 0,
                  next |-> r.next]
        ELSE ScanNumber(chars, j, 4)

\* a literal item after optional white space
ScanLiteral(chars, i, c) ==
    LET j == SkipSpace(chars, i)
    IN  [ok |-> At(chars, j) = c, next |-> j + 1]

\* Fixed::Nanosecond: nothing, or "." and digits, nine of which count
ScanNanosecond(chars, i) ==
    IF At(chars, i) # "." THEN [ok |-> TRUE, val |-> 0, next |-> i]
    ELSE LET n    == DigitRun(chars, i + 1, 9)
             more == DigitRun(chars, i + 1 + n, Len(chars))
         IN  [ok   |-> n >= 1,
              val  |-> NumVal(chars, i + 1, n) * Pow10(9 - n),
              next |-> i + 1 + n + more]

\* Fixed::TimezoneOffsetZ: "Z", "z", or a sign, hh, an optional colon and mm;
\* val is the offset east of UTC in seconds
ScanOffset(chars, i) ==
    LET j == SkipSpace(chars, i)
        c == At(chars, j)
    IN  IF c \in {"Z", "z"} THEN [ok |-> TRUE, val |-> 0, next |-> j + 1]
        ELSE IF c \notin {"+", "-"} THEN [ok |-> FALSE, val |-> 0, next |-> j]
        ELSE LET hh   == DigitRun(chars, j + 1, 2)
                 k    == SkipSpace(chars, j + 3)
                 m    == IF At(chars, k) = ":" THEN SkipSpace(chars, k + 1) ELSE k
                 mm   == DigitRun(chars, m, 2)
                 secs == NumVal(chars, j + 1, 2) * 3600 + NumVal(chars, m, 2) * 60
             IN  IF hh = 2 /\ mm = 2 /\ NumVal(chars, m, 2) < 60
                 THEN [ok |-> TRUE, val |-> IF c = "-" THEN -secs ELSE secs,
                       next |-> m + 2]
                 ELSE [ok |-> FALSE, val |-> 0, next |-> j]

\* Parsed::to_datetime and with_timezone(&Utc): the fields checked, the leap
\* second folded into the fraction, the offset taken off
ToUtc(year, month, day, hour, min, sec, nano, offset) ==
    IF \/ year < -262144 \/ year > 262143
       \/ month \notin 1..12
       \/ day < 1 \/ day > DaysInMonth(year, month)
       \/ hour > 23 \/ min > 59 \/ sec > 60
       \/ offset <= -86400 \/ offset >= 86400
    THEN None
    ELSE LET local == hour * 3600 + min * 60 + (IF sec = 60 THEN 59 ELSE sec)
                      - offset
             days  == DaysFromCivil(year, month, day) + (local \div 86400)
         IN  IF days < MIN_DATE_DAYS \/ days > MAX_DATE_DAYS THEN None
             ELSE DateTime(days, local % 86400,
                           IF sec = 60 THEN nano + 1000000000 ELSE nano)

\* <DateTime<Utc> as FromStr>::from_str
from_str(chars) ==
    LET y  == ScanYear(chars, 1)
        l1 == ScanLiteral(chars, y.next, "-")
        mo == ScanField(chars, l1.next)
        l2 == ScanLiteral(chars, mo.next, "-")
        d  == ScanField(chars, l2.next)
        t  == d.next
        h  == ScanField(chars, t + 1)
        l3 == ScanLiteral(chars, h.next, ":")
        mi == ScanField(chars, l3.next)
        l4 == ScanLiteral(chars, mi.next, ":")
        se == ScanField(chars, l4.next)
        ns == ScanNanosecond(chars, se.next)
        of == ScanOffset(chars, ns.next)
    IN  IF /\ y.ok /\ l1.ok /\ mo.ok /\ l2.ok /\ d.ok
           /\ At(chars, t) \in {"T", " "}
           /\ h.ok /\ l3.ok /\ mi.ok /\ l4.ok /\ se.ok /\ ns.ok /\ of.ok
           /\ SkipSpace(chars, of.next) = Len(chars) + 1
        THEN ToUtc(y.val, mo.val, d.val, h.val, mi.val, se.val, ns.val, of.val)
        ELSE None

\* Deserialize for Timestamp: TimestampVisitor::visit_str
deserialize(value) ==
    LET utc == from_str(value.chars)
    IN  IF utc = None THEN Err("Failed to parse value as datetime")
        ELSE from_datetime(utc)

----------------------------------------------------------------------------
(* Inputs.                                                                 *)

\* how many conversions one behaviour chains
MaxTrail == 3

\* how far around each boundary value the inputs reach
Near == 2

INT_MIN == -2147483647 - 1

INT_MAX == 2147483647

\* the protobuf Timestamp domain, 0001-01-01T00:00:00Z to 9999-12-31T23:59:59Z
MIN_SECONDS == BNeg(Big(<<62, 135, 596, 800>>))

MAX_SECONDS == Big(<<253, 402, 300, 799>>)

Around(x) == {v \in {BAdd(x, FromInt(k)) : k \in -Near..Near} : FitsI64(v)}

Upto(x) == {BSub(x, FromInt(k)) : k \in 0..Near}

Above(x) == {BAdd(x, FromInt(k)) : k \in 0..Near}

CanonicalNanos == {0, 1000, 5000000, 123456789, 500000000, 999999000, 999999999}

WildNanos == {INT_MIN, -1000000000, -1, 1000000000, 2000000000, INT_MAX}

TimestampInputs ==
    {Timestamp(s, n) :
        s \in Above(MIN_SECONDS) \cup Around(BNeg(One)) \cup Upto(MAX_SECONDS)
              \cup {Big(<<946, 684, 800>>), Big(<<1, 700, 000, 000>>)},
        n \in CanonicalNanos}
    \cup {Timestamp(s, n) :
        s \in {FromInt(10), Zero, MIN_SECONDS, MAX_SECONDS, I64_MIN, I64_MAX},
        n \in WildNanos}
    \cup {Timestamp(s, 0) :
        s \in Around(MIN_SECONDS) \cup Around(MAX_SECONDS)
              \cup Upto(I64_MAX) \cup Above(I64_MIN)
              \cup Around(Big(<<9, 223, 372, 036, 854>>))
              \cup Around(BNeg(Big(<<9, 223, 372, 036, 854>>)))}
    \cup {Timestamp(Big(<<9, 223, 372, 036, 854>>), 999999999),
          Timestamp(BNeg(Big(<<9, 223, 372, 036, 853>>)), INT_MIN)}

\* PostgreSQL offsets, given by the Unix microsecond count they stand for
\* under the decoder's rebasing, and the ends of the i64 range ('infinity'
\* and '-infinity' are i64::MAX and i64::MIN on the wire)
PgValueInputs ==
    {PgValue(BSub(m, Big(<<946, 728, 000, 000, 000>>))) :
        m \in Around(BNeg(Big(<<62, 135, 596, 800, 000, 000>>)))
              \cup Around(Big(<<253, 402, 300, 799, 999, 999>>))
              \cup Around(Zero)
              \cup Around(BNeg(Big(<<1, 000, 000>>)))
              \cup Around(Big(<<1, 000, 000>>))
              \cup {BNeg(Big(<<1, 500, 000>>)), BNeg(Big(<<500, 000>>)),
                    Big(<<500, 000>>), Big(<<946, 684, 800, 000, 000>>),
                    Big(<<946, 728, 000, 000, 000>>),
                    Big(<<1, 700, 000, 000, 123, 456>>),
                    BNeg(Big(<<62, 135, 596, 799, 500, 000>>))}}
    \cup {PgValue(m) : m \in Upto(I64_MAX) \cup Above(I64_MIN)}
    \cup {PgValue(m) : m \in Around(BSub(I64_MAX, Big(<<946, 728, 000, 000, 000>>)))}
    \cup {MalformedPgValue}

DurationInputs ==
    {Duration(s, n) :
        s \in Above(Zero) \cup {FromInt(10)} \cup Around(Big(<<9, 223, 372, 036>>))
              \cup Around(ChronoMaxSecs) \cup Upto(I64_MAX),
        n \in {0, 100, 500000000, 854775807, 854775808, 999999999}}
    \cup {Duration(s, n) :
        s \in Upto(Zero) \cup {FromInt(-10)}
              \cup Around(BNeg(Big(<<9, 223, 372, 036>>)))
              \cup Around(BNeg(ChronoMaxSecs)) \cup Above(I64_MIN),
        n \in {0, -100, -500000000, -854775808, -854775809, -999999999}}
    \cup {Duration(s, n) :
        s \in {FromInt(1), FromInt(-1)},
        n \in {-1, 1, INT_MIN, INT_MAX, 1000000000, -1000000000}}

ChronoDurationInputs ==
    {ChronoDuration(Zero, 0), ChronoDuration(FromInt(10), 100),
     ChronoDuration(FromInt(-1), 999999900),
     ChronoDuration(ChronoMaxSecs, 807000000),
     ChronoDuration(BNeg(Big(<<9, 223, 372, 036, 854, 776>>)), 192000000)}

DateTimeInputs ==
    {DateTime(719163, 0, 0), DateTime(719163, 12, 5000000),
     DateTime(730119, 86399, 1999999999),
     DateTime(MIN_DATE_DAYS, 0, 0), DateTime(MAX_DATE_DAYS, 86399, 999999999)}

StrInputs ==
    {Str(<<"2", "0", "2", "3", "-", "1", "1", "-", "1", "4", "T", "2", "2", ":",
           "1", "3", ":", "2", "0", ".", "1", "2", "3", "4", "5", "6", "7", "8",
           "9", "Z">>),
     Str(<<"1", "9", "7", "0", "-", "0", "1", "-", "0", "1", "T", "0", "1", ":",
           "0", "0", ":", "0", "0", "+", "0", "1", ":", "0", "0">>),
     Str(<<"1", "9", "7", "0", "-", "0", "1", "-", "0", "1", " ", "0", "0", ":",
           "0", "0", ":", "0", "0", ".", "5", "z">>),
     Str(<<"1", "9", "7", "0", "-", "0", "1", "-", "0", "1", "T", "0", "0", ":",
           "0", "0", ":", "0", "0">>),
     Str(<<"2", "0", "2", "3", "-", "0", "2", "-", "2", "9", "T", "0", "0", ":",
           "0", "0", ":", "0", "0", "Z">>),
     Str(<<"n", "o", "w">>)}

Inputs ==
    TimestampInputs \cup PgValueInputs \cup DurationInputs
        \cup ChronoDurationInputs \cup DateTimeInputs \cup StrInputs

----------------------------------------------------------------------------
(* The state machine.                                                      *)

Last == hist[Len(hist)]

\* overflowChecks is the build's -C overflow-checks setting (on in debug
\* builds, off in release builds): it is fixed for the whole behaviour
Init ==
    /\ hist \in {<<v>> : v \in Inputs}
    /\ trail = <<>>
    /\ overflowChecks \in BOOLEAN

Step(name, result) ==
    /\ Len(trail) < MaxTrail
    /\ hist' = Append(hist, result)
    /\ trail' = Append(trail, name)
    /\ UNCHANGED overflowChecks

FromNaiveDateTime ==
    /\ Last.type = "DateTime"
    /\ Step("from_naive_datetime", from_naive_datetime(Last))

FromDateTime ==
    /\ Last.type = "DateTime"
    /\ Step("from_datetime", from_datetime(Last))

FromTimestamp ==
    /\ Last.type = "Timestamp"
    /\ Step("from_timestamp", from_timestamp(Last))

FromDuration ==
    /\ Last.type = "Duration"
    /\ Step("from_duration", from_duration(Last))

FromChronoDuration ==
    /\ Last.type = "ChronoDuration"
    /\ Step("from_chrono_duration", from_chrono_duration(Last))

Serialize ==
    /\ Last.type = "Timestamp"
    /\ Step("serialize", serialize(Last))

Deserialize ==
    /\ Last.type = "Str"
    /\ Step("deserialize", deserialize(Last))

FromSql ==
    /\ Last.type = "PgValue"
    /\ Step("from_sql", from_sql(Last))

ToSql ==
    /\ Last.type = "Timestamp"
    /\ Step("to_sql", to_sql(Last))

FromSqlTz ==
    /\ Last.type = "PgValue"
    /\ Step("from_sql_tz", from_sql_tz(Last))

ToSqlTz ==
    /\ Last.type = "Timestamp"
    /\ Step("to_sql_tz", to_sql_tz(Last))

Normalize ==
    /\ Last.type = "Timestamp"
    /\ Step("normalize", normalize(Last))

Next ==
    \/ FromNaiveDateTime
    \/ FromDateTime
    \/ FromTimestamp
    \/ FromDuration
    \/ FromChronoDuration
    \/ Serialize
    \/ Deserialize
    \/ FromSql
    \/ ToSql
    \/ FromSqlTz
    \/ ToSqlTz
    \/ Normalize

Spec == Init /\ [][Next]_vars

----------------------------------------------------------------------------
(* Properties.                                                             *)

Encoders == {"to_sql", "to_sql_tz"}

Decoders == {"from_sql", "from_sql_tz"}

\* microseconds from the Unix epoch to the offset origin of section 4.4
PG_EPOCH_US == Big(<<946, 728, 000, 000, 000>>)

UnixMicros(pg) == BAdd(pg.offset, PG_EPOCH_US)

InSqlRange(m) ==
    /\ BLe(BNeg(Big(<<62, 135, 596, 800, 000, 000>>)), m)
    /\ BLe(m, Big(<<253, 402, 300, 799, 999, 999>>))

\* seconds * 10^9 + nanos, the instant or interval a pair stands for
TotalNanos(t) == BAdd(BMul(t.seconds, 1000000000), FromInt(t.nanos))

\* a canonical Timestamp of the valid domain
InDomain(t) ==
    /\ t.type = "Timestamp"
    /\ BLe(MIN_SECONDS, t.seconds) /\ BLe(t.seconds, MAX_SECONDS)
    /\ 0 <= t.nanos /\ t.nanos < 1000000000

\* a Timestamp, canonical or not, whose instant lies in the valid domain
InstantInDomain(t) ==
    /\ t.type = "Timestamp"
    /\ BLe(BMul(MIN_SECONDS, 1000000000), TotalNanos(t))
    /\ BLe(TotalNanos(t), BAdd(BMul(MAX_SECONDS, 1000000000), FromInt(999999999)))

\* C1: SQL round trip.  For every Timestamp t of the valid domain with
\* nanos % 1000 = 0, decoding the offset that encoding t produced returns t.
C1_SqlRoundTrip ==
    (/\ Len(trail) >= 2
     /\ trail[1] \in Encoders /\ trail[2] \in Decoders
     /\ InDomain(hist[1]) /\ hist[1].nanos % 1000 = 0)
    => hist[3] = hist[1]

\* C2: SQL decode floors.  For every offset whose rebased value m_unix passes
\* the range check, the decoded Timestamp has 0 <= nanos < 10^9 and
\* seconds = floor(m_unix / 1_000_000).
C2_DecodeFloors ==
    (/\ Len(trail) >= 1
     /\ trail[1] \in Decoders
     /\ hist[1].wellFormed /\ InSqlRange(UnixMicros(hist[1])))
    => /\ hist[2].type = "Timestamp"
       /\ 0 <= hist[2].nanos /\ hist[2].nanos < 1000000000
       /\ hist[2].seconds = BFloorDiv(UnixMicros(hist[1]), 1000000)

\* C3: SQL epoch alignment.  Encoding Timestamp{946_684_800, 0}, which is
\* 2000-01-01T00:00:00Z, yields the PostgreSQL offset 0.
C3_EpochAlignment ==
    (/\ Len(trail) >= 1
     /\ trail[1] \in Encoders
     /\ hist[1] = Timestamp(Big(<<946, 684, 800>>), 0))
    => hist[2] = PgValue(Zero)

\* C4: SQL decode range check.  from_sql returns an error exactly when
\* m_unix = m_pg + 946_728_000_000_000 lies outside the range, and for every
\* m_unix inside it returns a Timestamp with seconds in the valid domain.
C4_RangeCheck ==
    (/\ Len(trail) >= 1
     /\ trail[1] \in Decoders
     /\ hist[1].wellFormed)
    => /\ hist[2].type = "Err" <=> ~InSqlRange(UnixMicros(hist[1]))
       /\ InSqlRange(UnixMicros(hist[1]))
            => /\ hist[2].type = "Timestamp"
               /\ BLe(MIN_SECONDS, hist[2].seconds)
               /\ BLe(hist[2].seconds, MAX_SECONDS)

\* C5: the forward calendar conversion does not panic on a Timestamp whose
\* instant lies in the valid domain, whatever its nanos, and yields the
\* instant seconds * 10^9 + nanos; Timestamp{10, 2_000_000_000} converts to
\* 1970-01-01T00:00:12Z.
C5_ForwardConversionTotal ==
    \A k \in 1..Len(trail) :
        (trail[k] = "from_timestamp" /\ InstantInDomain(hist[k]))
        => /\ hist[k + 1].type = "DateTime"
           /\ hist[k + 1].frac < 1000000000
           /\ TotalNanos([seconds |-> timestamp(hist[k + 1]),
                          nanos   |-> hist[k + 1].frac])
                = TotalNanos(hist[k])
           /\ hist[k] = Timestamp(FromInt(10), 2000000000)
                => FormatDebug(hist[k + 1])
                     = <<"1", "9", "7", "0", "-", "0", "1", "-", "0", "1", "T",
                         "0", "0", ":", "0", "0", ":", "1", "2", "Z">>

C5_Witness ==
    /\ Len(trail) >= 1
    /\ trail[1] = "from_timestamp"
    /\ hist[1] = Timestamp(FromInt(10), 2000000000)
    /\ hist[2] = DateTime(719163, 12, 0)

\* C6: after Timestamp.normalize of any (i64, i32) pair 0 <= nanos < 10^9
\* holds, so the cast `nanos as u32` of the forward calendar conversion gets
\* a value of that range and leaves it unchanged.
C6_NanosCanonical ==
    \A k \in 1..Len(trail) :
        /\ trail[k] = "normalize"
             => 0 <= hist[k + 1].nanos /\ hist[k + 1].nanos < 1000000000
        /\ trail[k] = "from_timestamp"
             => LET value == normalize(hist[k])
                IN  /\ 0 <= value.nanos /\ value.nanos < 1000000000
                    /\ AsU32(value.nanos) = FromInt(value.nanos)

C6_Witness ==
    /\ Len(trail) >= 1
    /\ trail[1] = "normalize"
    /\ hist[1] = Timestamp(I64_MIN, INT_MIN)
    /\ hist[2].nanos = 852516352

\* a Duration with |nanos| < 10^9 and no opposite signs
CanonicalDuration(d) ==
    /\ d.type = "Duration"
    /\ -1000000000 < d.nanos /\ d.nanos < 1000000000
    /\ ~(d.seconds.neg /\ d.nanos > 0)
    /\ ~(~d.seconds.neg /\ d.seconds # Zero /\ d.nanos < 0)

\* C7: Duration round trip.  For every Duration d with |nanos| < 10^9 and
\* seconds and nanos of matching sign, over the whole i64 range of seconds,
\* d to interval, back to Duration and to interval again completes without
\* panic and yields the interval of the first conversion.
C7_DurationRoundTrip ==
    (/\ Len(trail) >= 1
     /\ CanonicalDuration(hist[1])
     /\ \A k \in 1..Len(trail) :
            trail[k] = IF k = 2 THEN "from_chrono_duration" ELSE "from_duration")
    => /\ Last.type # "Panic"
       /\ Len(trail) = 3 => hist[4] = hist[2]

\* the nanoseconds of a chrono interval
IntervalNanos(d) == BAdd(BMul(d.secs, 1000000000), FromInt(d.nanos))

\* C8: interval to Duration keeps value and sign.  For every chrono interval
\* of n nanoseconds the conversion yields a Duration with
\* seconds * 10^9 + nanos = n, |nanos| < 10^9 and no opposite signs.
C8_IntervalToDuration ==
    \A k \in 1..Len(trail) :
        trail[k] = "from_chrono_duration"
        => /\ hist[k + 1].type = "Duration"
           /\ TotalNanos(hist[k + 1]) = IntervalNanos(hist[k])
           /\ -1000000000 < hist[k + 1].nanos /\ hist[k + 1].nanos < 1000000000
           /\ ~(hist[k + 1].seconds.neg /\ hist[k + 1].nanos > 0)
           /\ ~(~hist[k + 1].seconds.neg /\ hist[k + 1].seconds # Zero
                /\ hist[k + 1].nanos < 0)
           /\ hist[k] = ChronoDuration(FromInt(10), 100)
                => hist[k + 1] = Duration(FromInt(10), 100)

\* C9: Timestamp text round trip.  For every Timestamp t whose instant lies
\* in the valid domain, canonical or not, deserializing the string that
\* serializing t produced yields normalize(t): the canonical pair of the same
\* instant.  Timestamp{1_700_000_000, 123_456_789} serializes to
\* "2023-11-14T22:13:20.123456789Z" and parses back to itself.
C9_TextRoundTrip ==
    (/\ Len(trail) >= 2
     /\ trail[1] = "serialize" /\ trail[2] = "deserialize"
     /\ InstantInDomain(hist[1]))
    => /\ hist[2].type = "Str"
       /\ InDomain(hist[3])
       /\ TotalNanos(hist[3]) = TotalNanos(hist[1])
       /\ hist[3] = normalize(hist[1])
       /\ hist[1] = Timestamp(Big(<<1, 700, 000, 000>>), 123456789)
            => /\ hist[2].chars
                    = <<"2", "0", "2", "3", "-", "1", "1", "-", "1", "4", "T",
                        "2", "2", ":", "1", "3", ":", "2", "0", ".", "1", "2",
                        "3", "4", "5", "6", "7", "8", "9", "Z">>
               /\ hist[3] = hist[1]

C9_Witness ==
    /\ trail = <<"serialize", "deserialize">>
    /\ hist[1] = Timestamp(Big(<<1, 700, 000, 000>>), 123456789)
    /\ hist[3] = hist[1]

\* C10: reverse SQL round trip.  For every PostgreSQL offset m_pg whose
\* rebased value passes the decode range check, encoding the decoded
\* Timestamp yields m_pg again, for negative and positive instants: the
\* decoded pair has seconds * 1_000_000 + nanos / 1000 = m_unix under the
\* truncating division of the encoder.
C10_ReverseSqlRoundTrip ==
    (/\ Len(trail) >= 2
     /\ trail[1] \in Decoders /\ trail[2] \in Encoders
     /\ hist[1].wellFormed /\ InSqlRange(UnixMicros(hist[1])))
    => /\ hist[2].type = "Timestamp"
       /\ BAdd(BMul(hist[2].seconds, 1000000),
               FromInt(TruncDiv(hist[2].nanos, 1000))) = UnixMicros(hist[1])
       /\ hist[3] = hist[1]

C10_Witness ==
    /\ trail = <<"from_sql", "to_sql">>
    /\ hist[2].type = "Timestamp"
    /\ hist[2].nanos < 0
    /\ hist[3] = hist[1]

====
